---------------------------- MODULE Spec2Model ----------------------------
(***************************************************************************)
(* LongTermMemoryStore (src/task/tools/memory/memory_store.py): one JSON   *)
(* file per user in the DIAL bucket, an in-process cache keyed by          *)
(* conversation id, similarity search and a search-triggered               *)
(* deduplication pass.                                                     *)
(*                                                                         *)
(* The specifications, all over the same variables:                        *)
(*   Spec      calls of two conversations that do not overlap and whose    *)
(*             remote calls succeed: every handler runs to its end.        *)
(*   SpecFault calls of one conversation that do not overlap; the remote   *)
(*             calls of one kind may fail during a call.                   *)
(*   SpecConc  add_memory coroutines of one conversation interleaved at    *)
(*             their await points.                                         *)
(*   SpecInput, SpecSave, SpecStores, SpecDedup                            *)
(*             calls that do not overlap, with the inputs of the tool      *)
(*             layer, saves of a loaded collection, stores only, and       *)
(*             collections stored a day ago that a search deduplicates.    *)
(*                                                                         *)
(* Python indexes sequences from 0, TLA+ from 1: position p of the model   *)
(* is index p-1 of the code.  Importance is kept in tenths (9 is 0.9).     *)
(* Time is in whole seconds; None is NoTime.                               *)
(***************************************************************************)
EXTENDS Integers, Sequences, FiniteSets, TLC

VARIABLES
    file,    \* the user's long-memories.json in the bucket, or NoFile
    cache,   \* self._cache: conversation id -> the cached object, or NoObj
    heap,    \* the MemoryCollection objects that are referenced
    now,     \* datetime.now(UTC), in seconds
    last,    \* the call that returned last and what it returned
    calls,   \* how many calls have been made
    task     \* SpecConc: each add_memory coroutine's position and locals

vars == <<file, cache, heap, now, last, calls, task>>

----------------------------------------------------------------------------
(* Bounds of the model *)

MaxMem == 2        \* a store is issued while the collection holds fewer records
MaxSeconds == 1    \* one-second ticks within a day
MaxDays == 1       \* 24-hour jumps of the clock
MaxTopK == 2       \* top_k ranges over 1..MaxTopK
MaxCalls == 3      \* calls made in one behaviour of Spec
MaxNorm == 565      \* the norms of the model's embeddings are in 1..MaxNorm

(* Program constants *)

DEDUP_INTERVAL_HOURS == 24
SecondsPerHour == 3600
NEIGHBOURS == 10           \* k = min(10, n)
ThresholdNum == 3          \* 0.75 = 3/4
ThresholdDen == 4

NoTime == -1
NoObj == "NoObj"
NoFile == [missing |-> "file"]       \* no long-memories.json in the bucket
NoColl == [missing |-> "object"]     \* no object of that name

Convs == {"c1", "c2"}
Tasks == {"t1", "t2"}
ObjIds == Convs \cup Tasks

Contents == {"a", "b", "c"}
Importances == {4, 9}

Min(x, y) == IF x <= y THEN x ELSE y

----------------------------------------------------------------------------
(* The embedder and cosine similarity *)

\* self.model.encode([content])[0]: a deterministic vector per text.
\* cos(a,b) = 0.8, cos(b,c) = 0.6, cos(a,c) = 0; cos(b,e) = 0.96,
\* cos(a,e) = 0.6.  d1..d9 lie on the other side of a than b does, each
\* nearer to a than b is (cos(a,di) >= 0.88) and farther from b than a is
\* (cos(b,di) <= 0.72).  f1..f9 are to b what d1..d9 are to a: on the
\* other side of b than a, cos(b,fi) = cos(a,di) and cos(a,fi) <= 0.72.
Embedding(content) ==
    CASE content = "a" -> <<5, 0>>
      [] content = "b" -> <<4, 3>>
      [] content = "c" -> <<0, 10>>
      [] content = "e" -> <<3, 4>>
      [] content = "d1" -> <<12, -5>>
      [] content = "d2" -> <<15, -8>>
      [] content = "d3" -> <<24, -7>>
      [] content = "d4" -> <<35, -12>>
      [] content = "d5" -> <<40, -9>>
      [] content = "d6" -> <<63, -16>>
      [] content = "d7" -> <<60, -11>>
      [] content = "d8" -> <<84, -13>>
      [] content = "d9" -> <<112, -15>>
      [] content = "f1" -> <<33, 56>>
      [] content = "f2" -> <<36, 77>>
      [] content = "f3" -> <<75, 100>>
      [] content = "f4" -> <<104, 153>>
      [] content = "f5" -> <<133, 156>>
      [] content = "f6" -> <<204, 253>>
      [] content = "f7" -> <<207, 224>>
      [] content = "f8" -> <<297, 304>>
      [] content = "f9" -> <<403, 396>>
      [] OTHER -> <<3, 4>>

Dot(u, v) == u[1] * v[1] + u[2] * v[2]

\* np.linalg.norm: every vector of the model has an integer norm
Norm(v) == CHOOSE r \in 1..MaxNorm : r * r = Dot(v, v)

\* embeddings / norms: the unit vector v/norm, kept as the pair
Normalized(v) == [v |-> v, norm |-> Norm(v)]

\* (SubSeq makes the sequence a tuple of values, computed once)
NormalizedAll(embs) ==
    SubSeq([p \in DOMAIN embs |-> Normalized(embs[p])], 1, Len(embs))

\* The inner product of unit vectors q and x is greater than that of q and y
\* (the common factor q.norm is dropped).
ScoreGreater(q, x, y) == Dot(q.v, x.v) * y.norm > Dot(q.v, y.v) * x.norm

\* similarities[i][j] > 0.75, for the unit vectors x and y
AboveThreshold(x, y) ==
    ThresholdDen * Dot(x.v, y.v) > ThresholdNum * (x.norm * y.norm)

----------------------------------------------------------------------------
(* faiss.IndexFlatIP over the normalized embeddings *)

\* The positions of S whose vector has the highest score for query q
Best(q, index, S) == {b \in S : \A x \in S : ~ScoreGreater(q, index[x], index[b])}

\* The orders in which the index may list the k best of the positions S:
\* descending score, equal scores in any order.
RECURSIVE Ranked(_, _, _, _)
Ranked(q, index, S, k) ==
    IF k = 0 \/ S = {}
    THEN {<<>>}
    ELSE UNION {{<<b>> \o r : r \in Ranked(q, index, S \ {b}, k - 1)} :
                b \in Best(q, index, S)}

\* index.search(q, k) for one query vector: the labels of the k nearest, and
\* label -1 (position 0 here) in the places the index cannot fill.
IndexSearch(q, index, k) ==
    {r \o [p \in 1..(k - Len(r)) |-> 0] : r \in Ranked(q, index, DOMAIN index, k)}

\* index.search(normalized_embeddings, k): one row per stored vector
RECURSIVE BatchSearchRows(_, _, _)
BatchSearchRows(index, k, i) ==
    IF i = 0
    THEN {<<>>}
    ELSE {Append(t, r) : t \in BatchSearchRows(index, k, i - 1),
                         r \in IndexSearch(index[i], index, k)}

BatchSearch(index, k) == BatchSearchRows(index, k, Len(index))

\* A Python list read at a label of the index: label -1 is the last element.
Item(list, p) == IF p = 0 THEN list[Len(list)] ELSE list[p]

----------------------------------------------------------------------------
(* _deduplicate_fast *)

EmbeddingsOf(memories) == [p \in DOMAIN memories |-> memories[p].embedding]

\* k = min(10, n)
DedupK(n) == Min(NEIGHBOURS, n)

\* for j in range(1, k): the neighbours of record i from column j on, with the
\* set marked so far; the result is the set marked when the loop is left.
\* similarities[i][j] is the score of record i and its neighbour of column j.
RECURSIVE NeighbourLoop(_, _, _, _, _, _, _)
NeighbourLoop(memories, index, indices, k, i, j, marked) ==
    IF j > k
    THEN marked
    ELSE LET neighbor_idx == indices[i][j] IN
         IF neighbor_idx \in marked
         THEN NeighbourLoop(memories, index, indices, k, i, j + 1, marked)
         ELSE IF AboveThreshold(index[i], Item(index, neighbor_idx))
         THEN IF memories[i].importance >= Item(memories, neighbor_idx).importance
              THEN NeighbourLoop(memories, index, indices, k, i, j + 1,
                                 marked \cup {neighbor_idx})
              ELSE marked \cup {i}
         ELSE NeighbourLoop(memories, index, indices, k, i, j + 1, marked)

\* for i in range(n)
RECURSIVE RecordLoop(_, _, _, _, _, _)
RecordLoop(memories, index, indices, k, i, marked) ==
    IF i > Len(memories)
    THEN marked
    ELSE IF i \in marked
    THEN RecordLoop(memories, index, indices, k, i + 1, marked)
    ELSE RecordLoop(memories, index, indices, k, i + 1,
                    NeighbourLoop(memories, index, indices, k, i, 2, marked))

\* duplicates_to_remove once both loops are done
DuplicatesToRemove(memories, indices) ==
    CHOOSE marked \in
        {RecordLoop(memories, index, indices, DedupK(Len(memories)), 1, {}) :
            index \in {NormalizedAll(EmbeddingsOf(memories))}} : TRUE

\* The same two loops, keeping for every duplicates_to_remove.add the record
\* that was kept with the one that was marked: pairs of <<kept, marked>>
RECURSIVE NeighbourPairs(_, _, _, _, _, _, _)
NeighbourPairs(memories, index, indices, k, i, j, pairs) ==
    IF j > k
    THEN pairs
    ELSE LET neighbor_idx == indices[i][j] IN
         IF \E p \in pairs : p[2] = neighbor_idx
         THEN NeighbourPairs(memories, index, indices, k, i, j + 1, pairs)
         ELSE IF AboveThreshold(index[i], Item(index, neighbor_idx))
         THEN IF memories[i].importance >= Item(memories, neighbor_idx).importance
              THEN NeighbourPairs(memories, index, indices, k, i, j + 1,
                                  pairs \cup {<<i, neighbor_idx>>})
              ELSE pairs \cup {<<neighbor_idx, i>>}
         ELSE NeighbourPairs(memories, index, indices, k, i, j + 1, pairs)

RECURSIVE RecordPairs(_, _, _, _, _, _)
RecordPairs(memories, index, indices, k, i, pairs) ==
    IF i > Len(memories)
    THEN pairs
    ELSE IF \E p \in pairs : p[2] = i
    THEN RecordPairs(memories, index, indices, k, i + 1, pairs)
    ELSE RecordPairs(memories, index, indices, k, i + 1,
                     NeighbourPairs(memories, index, indices, k, i, 2, pairs))

RemovalPairs(memories, indices) ==
    CHOOSE pairs \in
        {RecordPairs(memories, index, indices, DedupK(Len(memories)), 1, {}) :
            index \in {NormalizedAll(EmbeddingsOf(memories))}} : TRUE

\* The comprehension with its condition turned round: the marked are kept
RECURSIVE RetainMarked(_, _, _)
RetainMarked(memories, marked, i) ==
    IF i > Len(memories)
    THEN <<>>
    ELSE (IF i \in marked THEN <<memories[i]>> ELSE <<>>)
         \o RetainMarked(memories, marked, i + 1)

\* [m for i, m in enumerate(memories) if i not in duplicates_to_remove]
RECURSIVE Retain(_, _, _)
Retain(memories, marked, i) ==
    IF i > Len(memories)
    THEN <<>>
    ELSE (IF i \in marked THEN <<>> ELSE <<memories[i]>>)
         \o Retain(memories, marked, i + 1)

\* The list _deduplicate_fast returns when the index answers with `indices`
DeduplicateFast(memories, indices) ==
    IF Len(memories) < 2
    THEN memories
    ELSE Retain(memories, DuplicatesToRemove(memories, indices), 1)

\* The answers the index may give to the batch search of _deduplicate_fast
DedupIndices(memories) ==
    IF Len(memories) < 2
    THEN {<<>>}
    ELSE UNION {BatchSearch(index, DedupK(Len(memories))) :
                   index \in {NormalizedAll(EmbeddingsOf(memories))}}

----------------------------------------------------------------------------
(* The store's state as a value: w = [file, cache, heap].  The handlers are *)
(* written as operators from one such value to the next, so that a call    *)
(* that runs to its end and a coroutine that is suspended use the same     *)
(* definitions.  f is the set of remote calls that fail during the call:   *)
(* "lookup" (my_appdata_home), "download", "upload", "delete".             *)

Faults == {"lookup", "download", "upload", "delete"}

\* MemoryCollection(): no records, never saved, never deduplicated
EmptyCollection ==
    [memories |-> <<>>, updated_at |-> NoTime, last_deduplicated_at |-> NoTime]

World == [file |-> file, cache |-> cache, heap |-> heap]

\* Memory(data=MemoryData(id=int(now.timestamp()), ...), embedding=...)
NewId(t) == t

NewMemory(content, importance, t) ==
    [id |-> NewId(t), content |-> content, importance |-> importance,
     embedding |-> Embedding(content)]

\* collection.memories[i].data: the record without its embedding
Data(m) == [id |-> m.id, content |-> m.content, importance |-> m.importance]

\* _load_memories for conversation c; a collection it builds is object o.
\* raised: the exception of the path lookup, which is outside the try.
LoadMemories(w, c, o, f) ==
    IF w.cache[c] # NoObj
    THEN [raised |-> FALSE, obj |-> w.cache[c], w |-> w]
    ELSE IF "lookup" \in f
    THEN [raised |-> TRUE, obj |-> NoObj, w |-> w]
    ELSE LET collection == IF "download" \in f \/ w.file = NoFile
                           THEN EmptyCollection
                           ELSE w.file
         IN [raised |-> FALSE, obj |-> o,
             w |-> [w EXCEPT !.heap[o] = collection, !.cache[c] = o]]

\* memories.updated_at = datetime.now(UTC), on the object itself
Stamp(w, obj, t) == [w EXCEPT !.heap[obj].updated_at = t]

\* What the await of files.upload leaves behind once it has succeeded, and
\* the cache assignment after it
Uploaded(w, c, obj, bytes) == [w EXCEPT !.file = bytes, !.cache[c] = obj]

\* _save_memories
SaveMemories(w, c, obj, f, t) ==
    IF "lookup" \in f
    THEN [raised |-> TRUE, w |-> w]
    ELSE IF "upload" \in f
    THEN [raised |-> TRUE, w |-> Stamp(w, obj, t)]
    ELSE [raised |-> FALSE,
          w |-> Uploaded(Stamp(w, obj, t), c, obj, Stamp(w, obj, t).heap[obj])]

\* collection.memories.append(memory), on the object itself
AppendMemory(w, obj, memory) ==
    [w EXCEPT !.heap[obj].memories = Append(@, memory)]

\* add_memory that deduplicates the collection before it saves it
AddMemoryDeduplicating(w, c, o, content, importance, f, t) ==
    LET ld == LoadMemories(w, c, o, f) IN
    IF ld.raised
    THEN [out |-> "raised_load", w |-> ld.w]
    ELSE LET w1 == AppendMemory(ld.w, ld.obj, NewMemory(content, importance, t))
             indices == CHOOSE i \in DedupIndices(w1.heap[ld.obj].memories) : TRUE
             w2 == [w1 EXCEPT !.heap[ld.obj].memories = DeduplicateFast(@, indices)]
             sv == SaveMemories(w2, c, ld.obj, f, t)
         IN [out |-> IF sv.raised THEN "raised_save" ELSE "ok", w |-> sv.w]

\* add_memory
AddMemory(w, c, o, content, importance, f, t) ==
    LET ld == LoadMemories(w, c, o, f) IN
    IF ld.raised
    THEN [out |-> "raised_load", w |-> ld.w]
    ELSE LET sv == SaveMemories(AppendMemory(ld.w, ld.obj,
                                             NewMemory(content, importance, t)),
                                c, ld.obj, f, t)
         IN [out |-> IF sv.raised THEN "raised_save" ELSE "ok", w |-> sv.w]

\* _needs_deduplication without the test for None: the subtraction raises
\* and the except branch answers False
NeedsDeduplicationUnsetSkipped(collection, t) ==
    /\ collection.last_deduplicated_at # NoTime
    /\ t - collection.last_deduplicated_at > DEDUP_INTERVAL_HOURS * SecondsPerHour

\* _needs_deduplication
NeedsDeduplication(collection, t) ==
    IF collection.last_deduplicated_at = NoTime
    THEN TRUE
    ELSE t - collection.last_deduplicated_at > DEDUP_INTERVAL_HOURS * SecondsPerHour

\* _deduplicate_and_save when the index answers the batch search with
\* `indices`.  The collection it returns is object obj in the result.
DeduplicateAndSave(w, c, obj, f, t, indices) ==
    IF Len(w.heap[obj].memories) < 2
    THEN [dedup |-> "skipped", w |-> w]
    ELSE LET w1 == [w EXCEPT
                      !.heap[obj].memories = DeduplicateFast(@, indices),
                      !.heap[obj].last_deduplicated_at = t]
             sv == SaveMemories(w1, c, obj, f, t)
         IN [dedup |-> IF sv.raised THEN "failed" ELSE "done", w |-> sv.w]

\* k taken from the caller as it is, without the cut to the collection's size
SearchKUncut(top_k, n) == top_k

\* k = min(top_k, len(collection.memories))
SearchK(top_k, n) == Min(top_k, n)

\* The labels of the index read one position too low
ResultsShifted(memories, labels) ==
    [p \in DOMAIN labels |-> Data(Item(memories, labels[p] - 1))]

\* results = [collection.memories[i].data for i in indices[0]]
Results(memories, labels) ==
    [p \in DOMAIN labels |-> Data(Item(memories, labels[p]))]

\* del self._cache[conversation_id]: the object goes with its last reference
Release(h, ch, c) ==
    [o \in DOMAIN h |->
        IF o = ch[c] /\ \A d \in DOMAIN ch : d # c => ch[d] # o
        THEN NoColl
        ELSE h[o]]

\* delete_all_memories.  The failure of files.delete is caught and only
\* printed, whether the file is missing or the call failed.
DeleteAllMemories(w, c, f) ==
    IF "lookup" \in f
    THEN [out |-> "error", w |-> w]
    ELSE [out |-> "ok",
          w |-> [w EXCEPT !.file = IF "delete" \in f THEN @ ELSE NoFile,
                          !.cache[c] = NoObj,
                          !.heap = Release(@, w.cache, c)]]

\* search_memories: every outcome the call can have, one per answer of the
\* index.  "raised_index": np.linalg.norm(..., axis=1) on the array of an
\* empty list raises.
SearchOutcomes(w, c, o, query, top_k, f, t) ==
    LET ld == LoadMemories(w, c, o, f) IN
    IF ld.raised
    THEN {[out |-> "raised_load", dedup |-> "none", results |-> <<>>, w |-> ld.w]}
    ELSE IF ld.w.heap[ld.obj].memories = <<>>
    THEN {[out |-> "ok", dedup |-> "none", results |-> <<>>, w |-> ld.w]}
    ELSE LET needs == NeedsDeduplication(ld.w.heap[ld.obj], t)
             passes == IF needs
                       THEN {DeduplicateAndSave(ld.w, c, ld.obj, f, t, indices) :
                                indices \in DedupIndices(ld.w.heap[ld.obj].memories)}
                       ELSE {[dedup |-> "none", w |-> ld.w]}
         IN UNION {
              LET memories == dd.w.heap[ld.obj].memories IN
              IF memories = <<>>
              THEN {[out |-> "raised_index", dedup |-> dd.dedup,
                     results |-> <<>>, w |-> dd.w]}
              ELSE {[out |-> "ok", dedup |-> dd.dedup,
                     results |-> Results(memories, labels), w |-> dd.w] :
                       labels \in UNION {IndexSearch(normalized_query, index,
                                                     SearchK(top_k, Len(memories))) :
                                    normalized_query \in {Normalized(Embedding(query))},
                                    index \in {NormalizedAll(EmbeddingsOf(memories))}}}
              : dd \in passes}

----------------------------------------------------------------------------
(* Spec: calls that do not overlap *)

DaySeconds == DEDUP_INTERVAL_HOURS * SecondsPerHour

IdleTask == [pc |-> "idle", content |-> "", importance |-> 0, obj |-> NoObj,
             bytes |-> NoColl]

\* last: op, conv, arg (content or query), top_k: the call; out: "ok" when it
\* returned normally, "error" for the error message of delete_all_memories,
\* "raised_..." for an exception; dedup: what the dedup pass of a search did;
\* results: what a search returned; after: "store" for a search of the content
\* that the call before it stored in the same conversation, "delete" for a
\* delete that follows a delete of the same conversation; sinceDelete: a
\* delete has removed the file and no store was issued since.
NoCall == [op |-> "none", conv |-> "", arg |-> "", top_k |-> 0, out |-> "",
           dedup |-> "none", results |-> <<>>, after |-> "none",
           sinceDelete |-> FALSE]

Init ==
    /\ file = NoFile
    /\ cache = [c \in Convs |-> NoObj]
    /\ heap = [o \in ObjIds |-> NoColl]
    /\ now = 0
    /\ last = NoCall
    /\ calls = 0
    /\ task = [t \in Tasks |-> IdleTask]

SetWorld(w) ==
    /\ file' = w.file
    /\ cache' = w.cache
    /\ heap' = w.heap

\* The clock: a second passes, or 24 hours pass
Tick ==
    /\ \/ /\ now % DaySeconds < MaxSeconds
          /\ now' = now + 1
       \/ /\ now + DaySeconds <= MaxDays * DaySeconds + MaxSeconds
          /\ now' = now + DaySeconds
    /\ UNCHANGED <<file, cache, heap, last, calls, task>>

\* add_memory(conversation_id = c, content, importance)
Store(c, content, importance, f) ==
    /\ calls < MaxCalls
    /\ LET ld == LoadMemories(World, c, c, f)
           r == AddMemory(World, c, c, content, importance, f, now)
       IN /\ IF ld.raised THEN TRUE ELSE Len(ld.w.heap[ld.obj].memories) < MaxMem
          /\ SetWorld(r.w)
          /\ last' = [op |-> "store", conv |-> c, arg |-> content, top_k |-> 0,
                      out |-> r.out,
                      dedup |-> "none", results |-> <<>>, after |-> "none",
                      sinceDelete |-> FALSE]
    /\ calls' = calls + 1
    /\ UNCHANGED <<now, task>>

\* search_memories(conversation_id = c, query, top_k)
Search(c, query, top_k, f) ==
    /\ calls < MaxCalls
    /\ \E r \in SearchOutcomes(World, c, c, query, top_k, f, now) :
          /\ SetWorld(r.w)
          /\ last' = [op |-> "search", conv |-> c, arg |-> query, top_k |-> top_k,
                      out |-> r.out,
                      dedup |-> r.dedup, results |-> r.results,
                      after |-> IF last.op = "store" /\ last.out = "ok"
                                   /\ last.conv = c /\ last.arg = query
                                THEN "store" ELSE "none",
                      sinceDelete |-> last.sinceDelete]
    /\ calls' = calls + 1
    /\ UNCHANGED <<now, task>>

\* delete_all_memories(conversation_id = c)
DeleteAll(c, f) ==
    /\ calls < MaxCalls
    /\ LET r == DeleteAllMemories(World, c, f)
       IN /\ SetWorld(r.w)
          /\ last' = [op |-> "delete", conv |-> c, arg |-> "", top_k |-> 0,
                      out |-> r.out,
                      dedup |-> "none", results |-> <<>>,
                      after |-> IF last.op = "delete" /\ last.out = "ok"
                                   /\ last.conv = c
                                THEN "delete" ELSE "none",
                      sinceDelete |-> IF r.out = "ok" /\ r.w.file = NoFile
                                      THEN TRUE ELSE last.sinceDelete]
    /\ calls' = calls + 1
    /\ UNCHANGED <<now, task>>

\* No remote call fails during a call, or those of one kind do
FaultsOf(kinds) == {{}} \cup {{k} : k \in kinds}

\* Spec: two conversations of one user, remote calls that succeed
Next ==
    \/ Tick
    \/ \E c \in Convs, content \in Contents, importance \in Importances :
          Store(c, content, importance, {})
    \/ \E c \in Convs, query \in Contents, top_k \in 1..MaxTopK :
          Search(c, query, top_k, {})
    \/ \E c \in Convs : DeleteAll(c, {})

Spec == Init /\ [][Next]_vars

\* SpecFault: one conversation, remote calls that may fail
FaultConv == "c1"

NextFault ==
    \/ Tick
    \/ \E content \in Contents, importance \in Importances,
          f \in FaultsOf({"lookup", "download", "upload"}) :
          Store(FaultConv, content, importance, f)
    \/ \E query \in Contents, top_k \in 1..MaxTopK,
          f \in FaultsOf({"lookup", "download", "upload"}) :
          Search(FaultConv, query, top_k, f)
    \/ \E f \in FaultsOf({"lookup", "delete"}) : DeleteAll(FaultConv, f)

SpecFault == Init /\ [][NextFault]_vars

----------------------------------------------------------------------------
(* SpecConc: the add_memory coroutines of Tasks, all for conversation       *)
(* ConcConv, run on one event loop.  A coroutine runs until its next await *)
(* of a remote call and is resumed when that call has returned; between    *)
(* the two any other coroutine may run.  pc names the await a coroutine is *)
(* suspended at.  Remote calls succeed.  A collection built by task t is   *)
(* object t.                                                               *)

ConcConv == "c1"

SetTask(t, pc, obj, bytes) ==
    task' = [task EXCEPT ![t].pc = pc, ![t].obj = obj, ![t].bytes = bytes]

\* Lines 83-98 and 57-58: encode, build the record, append it to the
\* collection and enter _save_memories up to the await of the path lookup
AppendAndEnterSave(t, w, obj, content, importance) ==
    /\ SetWorld(AppendMemory(w, obj, NewMemory(content, importance, now)))
    /\ task' = [task EXCEPT ![t] = [pc |-> "save_lookup", content |-> content,
                                    importance |-> importance, obj |-> obj,
                                    bytes |-> NoColl]]

\* add_memory is called: _load_memories returns the cached object (line 37),
\* or awaits the path lookup (line 40)
Start(t, content, importance) ==
    /\ task[t].pc = "idle"
    /\ IF cache[ConcConv] # NoObj
       THEN AppendAndEnterSave(t, World, cache[ConcConv], content, importance)
       ELSE /\ task' = [task EXCEPT ![t] = [pc |-> "load_lookup",
                                            content |-> content,
                                            importance |-> importance,
                                            obj |-> NoObj,
                                            bytes |-> NoColl]]
            /\ UNCHANGED <<file, cache, heap>>
    /\ UNCHANGED <<now, last, calls>>

\* Line 40 returns; files.download is awaited (line 43)
LoadLookupDone(t) ==
    /\ task[t].pc = "load_lookup"
    /\ SetTask(t, "download", NoObj, NoColl)
    /\ UNCHANGED <<file, cache, heap, now, last, calls>>

\* Line 43 returns what the file holds now; lines 44-53, then 83-98 and 57-58
DownloadDone(t) ==
    /\ task[t].pc = "download"
    /\ LET collection == IF file = NoFile THEN EmptyCollection ELSE file
           w == [World EXCEPT !.heap[t] = collection, !.cache[ConcConv] = t]
       IN AppendAndEnterSave(t, w, t, task[t].content, task[t].importance)
    /\ UNCHANGED <<now, last, calls>>

\* Line 58 returns; lines 60-63 stamp and serialize the collection as it is
\* now; files.upload is awaited (line 65)
SaveLookupDone(t) ==
    /\ task[t].pc = "save_lookup"
    /\ LET w == Stamp(World, task[t].obj, now)
       IN /\ SetWorld(w)
          /\ SetTask(t, "upload", task[t].obj, w.heap[task[t].obj])
    /\ UNCHANGED <<now, last, calls>>

\* Line 65 returns: the bucket holds the uploaded bytes; line 67 caches the
\* object; add_memory returns
UploadDone(t) ==
    /\ task[t].pc = "upload"
    /\ SetWorld(Uploaded(World, ConcConv, task[t].obj, task[t].bytes))
    /\ SetTask(t, "done", task[t].obj, NoColl)
    /\ UNCHANGED <<now, last, calls>>

InitConc ==
    /\ file = NoFile
    /\ \/ /\ cache = [c \in Convs |-> NoObj]
          /\ heap = [o \in ObjIds |-> NoColl]
       \/ /\ cache = [c \in Convs |-> IF c = ConcConv THEN ConcConv ELSE NoObj]
          /\ heap = [o \in ObjIds |-> IF o = ConcConv THEN EmptyCollection ELSE NoColl]
    /\ now = 0
    /\ last = NoCall
    /\ calls = 0
    /\ task = [t \in Tasks |-> IdleTask]

NextConc ==
    \/ Tick
    \/ \E t \in Tasks, content \in Contents, importance \in Importances :
          Start(t, content, importance)
    \/ \E t \in Tasks : LoadLookupDone(t)
    \/ \E t \in Tasks : DownloadDone(t)
    \/ \E t \in Tasks : SaveLookupDone(t)
    \/ \E t \in Tasks : UploadDone(t)

SpecConc == InitConc /\ [][NextConc]_vars

----------------------------------------------------------------------------
(* SpecInput: one conversation, remote calls that succeed, and the inputs  *)
(* the tool layer hands over as it got them: content may be the empty      *)
(* string, importance may lie outside [0.0, 1.0] (-3 is -0.3, 17 is 1.7).  *)

InputContents == Contents \cup {""}
InputImportances == Importances \cup {-3, 17}

NextInput ==
    \/ Tick
    \/ \E content \in InputContents, importance \in InputImportances :
          Store(FaultConv, content, importance, {})
    \/ \E query \in Contents, top_k \in 1..MaxTopK :
          Search(FaultConv, query, top_k, {})
    \/ DeleteAll(FaultConv, {})

SpecInput == Init /\ [][NextInput]_vars

\* SpecStores: stores only, under either conversation id of the one user,
\* one after the other, the file download possibly failing
NextStores ==
    \/ Tick
    \/ \E c \in Convs, content \in Contents, importance \in Importances,
          f \in FaultsOf({"download"}) :
          Store(c, content, importance, f)

SpecStores == Init /\ [][NextStores]_vars

----------------------------------------------------------------------------
(* SpecSave: _save_memories applied to what _load_memories returned, with  *)
(* nothing done to the collection in between, among stores of one          *)
(* conversation.                                                           *)

\* collection = await self._load_memories(...);
\* await self._save_memories(..., collection)
SaveLoaded(c) ==
    /\ calls < MaxCalls
    /\ LET ld == LoadMemories(World, c, c, {})
           sv == SaveMemories(ld.w, c, ld.obj, {}, now)
       IN /\ SetWorld(sv.w)
          /\ last' = [NoCall EXCEPT !.op = "save", !.conv = c, !.out = "ok"]
    /\ calls' = calls + 1
    /\ UNCHANGED <<now, task>>

NextSave ==
    \/ Tick
    \/ \E content \in Contents, importance \in Importances :
          Store(FaultConv, content, importance, {})
    \/ SaveLoaded(FaultConv)

SpecSave == Init /\ [][NextSave]_vars

----------------------------------------------------------------------------
(* SpecDedup: searches and stores of one conversation on a collection that *)
(* was stored                                                              *)
(* up to second 0 and has never been deduplicated:  one or two records of  *)
(* any content and importance, a chain of three, the cluster of eleven, or *)
(* two clusters of twenty records together.                                *)
(* The path lookup or the upload of a save may fail.                       *)

\* The records stored one per second, the last one in second 0
RECURSIVE StoredFrom(_, _, _)
StoredFrom(contents, importances, p) ==
    IF p > Len(contents)
    THEN <<>>
    ELSE <<NewMemory(contents[p], importances[p], p - Len(contents))>>
         \o StoredFrom(contents, importances, p + 1)

Stored(contents, importances) ==
    [EmptyCollection EXCEPT !.memories = StoredFrom(contents, importances, 1),
                            !.updated_at = 0]

ClusterContents ==
    <<"a", "d1", "d2", "d3", "d4", "d5", "d6", "d7", "d8", "d9", "b">>

ChainContents == <<"b", "e", "a">>

TwoClustersContents ==
    ClusterContents \o <<"f1", "f2", "f3", "f4", "f5", "f6", "f7", "f8", "f9">>

StoredCollections ==
    {Stored(<<x>>, <<i>>) : x \in Contents, i \in Importances}
    \cup {Stored(<<x, y>>, <<i, j>>) :
             x \in Contents, y \in Contents, i \in Importances, j \in Importances}
    \cup {Stored(ChainContents, <<i, i, j>>) :
             i \in Importances, j \in Importances}
    \cup {Stored(ClusterContents,
                 [p \in DOMAIN ClusterContents |->
                     IF p = 1 THEN i ELSE IF p = Len(ClusterContents) THEN j ELSE 4]) :
             i \in Importances, j \in Importances}
    \cup {Stored(TwoClustersContents, [p \in DOMAIN TwoClustersContents |-> i]) :
             i \in Importances}

InitDedup ==
    /\ \E collection \in StoredCollections :
          /\ file = collection
          /\ heap = [o \in ObjIds |-> IF o = FaultConv THEN collection ELSE NoColl]
    /\ cache = [c \in Convs |-> IF c = FaultConv THEN FaultConv ELSE NoObj]
    /\ now = 0
    /\ last = NoCall
    /\ calls = 0
    /\ task = [t \in Tasks |-> IdleTask]

NextDedup ==
    \/ Tick
    \/ \E content \in Contents, importance \in Importances :
          Store(FaultConv, content, importance, {})
    \/ \E query \in Contents, top_k \in 1..MaxTopK,
          f \in FaultsOf({"lookup", "upload"}) :
          Search(FaultConv, query, top_k, f)

SpecDedup == InitDedup /\ [][NextDedup]_vars

----------------------------------------------------------------------------
(* Fields of a record that no code of the store sets or reads *)

\* access_count of a record: 0 unless something wrote the field
AccessCount(m) == IF "access_count" \in DOMAIN m THEN m.access_count ELSE 0

----------------------------------------------------------------------------
(* What the properties below speak of *)

\* The collection cached for conversation c, or NoColl
Cached(c) == IF cache[c] = NoObj THEN NoColl ELSE heap[cache[c]]

\* The records cached for conversation c, and the persisted ones
CachedMemories(c) == IF cache[c] = NoObj THEN <<>> ELSE heap[cache[c]].memories

PersistedMemories == IF file = NoFile THEN <<>> ELSE file.memories

\* The collection a call of conversation c works on when its load succeeds
Loaded(c) ==
    IF cache[c] # NoObj THEN heap[cache[c]]
    ELSE IF file = NoFile THEN EmptyCollection ELSE file

DistinctIds(memories) ==
    \A p, q \in DOMAIN memories : p # q => memories[p].id # memories[q].id

\* The step is a call (the clock stands still while a call of Spec runs)
IsCall == calls' = calls + 1

\* Each position of `results` can be given a position of `memories` of its
\* own that holds the record
DrawnFrom(results, memories) ==
    \E g \in [DOMAIN results -> DOMAIN memories] :
        /\ \A p \in DOMAIN results : results[p] = Data(memories[g[p]])
        /\ \A p, q \in DOMAIN results : p # q => g[p] # g[q]

----------------------------------------------------------------------------
(* C1 (SpecConc).  Once N concurrent add_memory calls of one conversation  *)
(* have all returned, the persisted file and the cached collection each    *)
(* hold the N records, and the N records have pairwise distinct ids.       *)

AllDone == \A t \in Tasks : task[t].pc = "done"

HoldsAllStored(memories) ==
    /\ Len(memories) = Cardinality(Tasks)
    /\ \A t \in Tasks : \E p \in DOMAIN memories :
          /\ memories[p].content = task[t].content
          /\ memories[p].importance = task[t].importance

C1_ConcurrentStoresAllPresent ==
    AllDone =>
        /\ HoldsAllStored(PersistedMemories)
        /\ HoldsAllStored(CachedMemories(ConcConv))
        /\ DistinctIds(PersistedMemories)
        /\ DistinctIds(CachedMemories(ConcConv))

\* The part of C1 that is about lost updates alone
C1_NoLostUpdate ==
    AllDone => HoldsAllStored(PersistedMemories) /\ HoldsAllStored(CachedMemories(ConcConv))

----------------------------------------------------------------------------
(* C2 (Spec).  In every reachable state no two records of one collection   *)
(* (the persisted one, a cached one) have the same id.                     *)

C2_UniqueIds ==
    /\ DistinctIds(PersistedMemories)
    /\ \A c \in Convs : DistinctIds(CachedMemories(c))

----------------------------------------------------------------------------
(* C3 (SpecFault).  A store that succeeded, and directly after it a search *)
(* of the stored content in the same conversation that returns.            *)

\* The step is such a search
SearchAfterStore ==
    /\ IsCall
    /\ last'.op = "search" /\ last'.after = "store" /\ last'.out = "ok"

\* The record the store appended: the last one of the cached collection
JustStored == CachedMemories(last.conv)[Len(CachedMemories(last.conv))]

\* Record m has the highest score for the query among `memories`
ScoresHighest(query, m, memories) ==
    \A p \in DOMAIN memories :
        ~ScoreGreater(Normalized(Embedding(query)),
                      Normalized(memories[p].embedding), Normalized(m.embedding))

\* No record of `memories` other than m scores as high as m for the query
ScoresAlone(query, m, memories) ==
    \A p \in DOMAIN memories :
        memories[p] # m =>
            ScoreGreater(Normalized(Embedding(query)),
                         Normalized(m.embedding), Normalized(memories[p].embedding))

----------------------------------------------------------------------------
(* C4 (Spec).  A dedup pass over exactly two records whose cosine          *)
(* similarity is above 0.75 and whose importances differ leaves exactly    *)
(* the record of higher importance, in either insertion order and however  *)
(* the index orders neighbours of equal score.                             *)

\* The step is a search whose dedup pass ran and was saved
DedupPassDone == IsCall /\ last'.op = "search" /\ last'.dedup = "done"

SimilarPair(memories) ==
    /\ Len(memories) = 2
    /\ AboveThreshold(Normalized(memories[1].embedding),
                      Normalized(memories[2].embedding))
    /\ memories[1].importance # memories[2].importance

MoreImportant(memories) ==
    IF memories[1].importance > memories[2].importance
    THEN memories[1] ELSE memories[2]

C4_HigherImportanceSurvives ==
    [][\A c \in Convs :
          (DedupPassDone /\ last'.conv = c /\ SimilarPair(Loaded(c).memories)) =>
              CachedMemories(c)' = <<MoreImportant(Loaded(c).memories)>>]_vars

\* The same for pairs whose embeddings do not point the same way, so that
\* each record outscores the other in its own neighbour list
C4_HigherImportanceSurvivesUntied ==
    [][\A c \in Convs :
          (/\ DedupPassDone /\ last'.conv = c
           /\ SimilarPair(Loaded(c).memories)
           /\ LET m == Loaded(c).memories IN
              ScoreGreater(Normalized(m[1].embedding), Normalized(m[1].embedding),
                           Normalized(m[2].embedding))) =>
              CachedMemories(c)' = <<MoreImportant(Loaded(c).memories)>>]_vars

----------------------------------------------------------------------------
(* C5 (Spec).  Once a deleteAll has removed the user's file and until a    *)
(* store is issued, a search under any conversation id of the user returns *)
(* nothing, and the first store after it persists its record alone.        *)

C5_DeletedStaysDeleted ==
    [][(IsCall /\ last.sinceDelete) =>
          /\ last'.op = "search" => last'.results = <<>>
          /\ (last'.op = "store" /\ last'.out = "ok") =>
                Len(PersistedMemories') = 1]_vars

----------------------------------------------------------------------------
(* C6 (SpecFault).  A store whose save fails leaves the cached collection  *)
(* of its conversation as it was before the store, without the new record. *)

C6_FailedSaveLeavesCache ==
    [][\A c \in Convs :
          (IsCall /\ last'.op = "store" /\ last'.out = "raised_save"
                  /\ last'.conv = c) =>
              /\ cache[c] # NoObj => Cached(c)' = Cached(c)
              /\ Len(CachedMemories(c)') <= Len(Loaded(c).memories)]_vars

----------------------------------------------------------------------------
(* C7 (SpecFault).  When the dedup pass of a search fails, also at its     *)
(* persist step, the collection that stays cached and that the search      *)
(* goes on with is the one from before the pass: the same records in the   *)
(* same order and the same last_deduplicated_at.                           *)

C7_FailedDedupLeavesCollection ==
    [][\A c \in Convs :
          (IsCall /\ last'.op = "search" /\ last'.dedup = "failed"
                  /\ last'.conv = c) =>
              /\ CachedMemories(c)' = Loaded(c).memories
              /\ Cached(c)'.last_deduplicated_at =
                     Loaded(c).last_deduplicated_at]_vars

----------------------------------------------------------------------------
(* C8 (SpecFault).  deleteAll reports success only when the user's file is *)
(* absent afterwards.                                                      *)

C8_DeleteSuccessMeansAbsent ==
    (last.op = "delete" /\ last.out = "ok") => file = NoFile

----------------------------------------------------------------------------
(* C9 (SpecFault).  A deleteAll directly after a deleteAll of the same     *)
(* conversation that reported success, itself reporting success, leaves    *)
(* the file and the cache as the first left them: no file, no cached copy  *)
(* for that conversation.                                                  *)

\* The step is the second of two deleteAll calls in a row of conversation c
SecondDelete(c) ==
    /\ IsCall
    /\ last.op = "delete" /\ last.conv = c
    /\ last'.op = "delete" /\ last'.conv = c

C9_DeleteTwice ==
    [][\A c \in Convs :
          (SecondDelete(c) /\ last.out = "ok" /\ last'.out = "ok") =>
              /\ file' = file /\ cache' = cache /\ heap' = heap
              /\ file' = NoFile
              /\ cache'[c] = NoObj]_vars

\* With no remote call failing (Spec) the second deleteAll also succeeds
\* and changes nothing
C9_DeleteTwiceNoFailure ==
    [][\A c \in Convs :
          SecondDelete(c) =>
              /\ last'.out = "ok"
              /\ file' = file /\ cache' = cache /\ heap' = heap
              /\ file' = NoFile
              /\ cache'[c] = NoObj]_vars

----------------------------------------------------------------------------
(* C10 (SpecFault).  A search returns at most top_k records and at most as *)
(* many as the collection holds after the dedup pass of that search; each  *)
(* is a record of that collection and none is returned twice.              *)

C10_ResultsBounded ==
    (last.op = "search") =>
        /\ Len(last.results) <= last.top_k
        /\ Len(last.results) <= Len(CachedMemories(last.conv))
        /\ DrawnFrom(last.results, CachedMemories(last.conv))

\* A search cut its results to top_k: the collection holds more
C10_Witness ==
    /\ last.op = "search" /\ last.out = "ok"
    /\ Len(last.results) = last.top_k
    /\ Len(CachedMemories(last.conv)) > last.top_k

----------------------------------------------------------------------------
(* C11 (SpecInput).  In every reachable state every stored record, cached  *)
(* or persisted, has an importance within [0.0, 1.0]: a store of a higher  *)
(* importance keeps 1.0 and a store of a lower one keeps 0.0.              *)

InRange(memories) ==
    \A p \in DOMAIN memories :
        memories[p].importance >= 0 /\ memories[p].importance <= 10

C11_ImportanceClamped ==
    /\ InRange(PersistedMemories)
    /\ \A c \in Convs : InRange(CachedMemories(c))

----------------------------------------------------------------------------
(* C12 (SpecSave).  A save of a collection as it was loaded, with a file   *)
(* already persisted, leaves the persisted state as it is, updated_at      *)
(* included; so does every repetition of it.                               *)

C12_SaveOfLoadedChangesNothing ==
    [][(IsCall /\ last'.op = "save" /\ file # NoFile) => file' = file]_vars

\* The records at least are left as they are
C12_SaveOfLoadedKeepsRecords ==
    [][(IsCall /\ last'.op = "save" /\ file # NoFile) =>
          file'.memories = file.memories]_vars

----------------------------------------------------------------------------
(* C13 (SpecInput).  A store of empty content is rejected: it leaves the   *)
(* cached and the persisted collection as they were and appends nothing.   *)

C13_EmptyContentRejected ==
    [][(IsCall /\ last'.op = "store" /\ last'.arg = "") =>
          /\ last'.out # "ok"
          /\ file' = file /\ cache' = cache /\ heap' = heap]_vars

----------------------------------------------------------------------------
(* C14 (Spec).  A search adds one to access_count of each record it        *)
(* returns and persists that: the persisted collection afterwards holds    *)
(* each returned record with its access_count one higher than before.      *)

Returned(m) == \E p \in DOMAIN last'.results : last'.results[p] = Data(m)

C14_SearchCountsAccess ==
    [][\A c \in Convs :
          (IsCall /\ last'.op = "search" /\ last'.out = "ok" /\ last'.conv = c) =>
              \A q \in DOMAIN Loaded(c).memories :
                  Returned(Loaded(c).memories[q]) =>
                      \E p \in DOMAIN PersistedMemories' :
                          /\ Data(PersistedMemories'[p]) = Data(Loaded(c).memories[q])
                          /\ AccessCount(PersistedMemories'[p]) =
                                 AccessCount(Loaded(c).memories[q]) + 1]_vars

----------------------------------------------------------------------------
(* C15 (SpecConc).  In no reachable state are two stores of one            *)
(* conversation both past their load and before the end of their persist.  *)

Mutating(t) == task[t].pc \in {"save_lookup", "upload"}

C15_MutualExclusion ==
    \A t, u \in Tasks : (Mutating(t) /\ Mutating(u)) => t = u

----------------------------------------------------------------------------
(* C16 (SpecDedup).  In a dedup pass over a collection of any size, when   *)
(* two records of equal importance and cosine similarity above 0.75 are    *)
(* paired and one of them is marked, the one kept has the smaller index.   *)

EarlierKept(memories, indices) ==
    \A p \in RemovalPairs(memories, indices) :
        (/\ p[1] # p[2]
         /\ memories[p[1]].importance = memories[p[2]].importance) => p[1] < p[2]

C16_TieKeepsEarlier ==
    [][\A c \in Convs :
          (DedupPassDone /\ last'.conv = c) =>
              \A indices \in DedupIndices(Loaded(c).memories) :
                  EarlierKept(Loaded(c).memories, indices)]_vars

\* The same for collections of at most 10 records, where every neighbour
\* list holds every record
C16_TieKeepsEarlierUpToTen ==
    [][\A c \in Convs :
          (DedupPassDone /\ last'.conv = c
                /\ Len(Loaded(c).memories) <= NEIGHBOURS) =>
              \A indices \in DedupIndices(Loaded(c).memories) :
                  EarlierKept(Loaded(c).memories, indices)]_vars

----------------------------------------------------------------------------
(* C17 (SpecDedup).  A search on a collection whose last_deduplicated_at   *)
(* is unset or more than 24 hours old runs the dedup pass and persists its *)
(* result before it queries the index, and returns only records that       *)
(* survived the pass; a search on a collection deduplicated less than 24   *)
(* hours ago runs no pass.                                                 *)

PassDue(collection) ==
    \/ collection.last_deduplicated_at = NoTime
    \/ now - collection.last_deduplicated_at > DaySeconds

PassRecent(collection) ==
    /\ collection.last_deduplicated_at # NoTime
    /\ now - collection.last_deduplicated_at < DaySeconds

----------------------------------------------------------------------------
(* C18 (SpecDedup).  A dedup pass that succeeds on two or more records     *)
(* retains exactly the unmarked records, unmodified and in their order,    *)
(* sets last_deduplicated_at and persists: afterwards the persisted        *)
(* collection equals the cached one.                                       *)

\* `kept` is `memories` without the positions `marked`, in order
IsWithout(kept, memories, marked) ==
    /\ Len(kept) = Len(memories) - Cardinality(marked \cap DOMAIN memories)
    /\ \E g \in [DOMAIN kept -> DOMAIN memories \ marked] :
          /\ \A p \in DOMAIN kept : kept[p] = memories[g[p]]
          /\ \A p, q \in DOMAIN kept : p < q => g[p] < g[q]

C18_PassRetainsUnmarked ==
    [][\A c \in Convs :
          (DedupPassDone /\ last'.conv = c) =>
              /\ \E indices \in DedupIndices(Loaded(c).memories) :
                    IsWithout(CachedMemories(c)', Loaded(c).memories,
                              {p[2] : p \in RemovalPairs(Loaded(c).memories, indices)})
              /\ Cached(c)'.last_deduplicated_at = now
              /\ file' = Cached(c)']_vars

\* A pass that removed a record and kept one has been persisted
C18_Witness ==
    /\ last.op = "search" /\ last.dedup = "done"
    /\ calls = 1
    /\ Len(CachedMemories(last.conv)) = 1
    /\ file = Cached(last.conv)

----------------------------------------------------------------------------
(* C19 (SpecDedup).  A store that succeeds leaves every record that was    *)
(* there, in its place, and last_deduplicated_at as they were: the         *)
(* collection afterwards is the one before with one record appended at the *)
(* end, and that is what is persisted.                                     *)

C19_StoreOnlyAppends ==
    [][\A c \in Convs :
          (IsCall /\ last'.op = "store" /\ last'.out = "ok" /\ last'.conv = c) =>
              LET before == Loaded(c).memories
                  after == CachedMemories(c)'
              IN /\ Len(after) = Len(before) + 1
                 /\ SubSeq(after, 1, Len(before)) = before
                 /\ after[Len(after)].content = last'.arg
                 /\ after[Len(after)].embedding = Embedding(last'.arg)
                 /\ Cached(c)'.last_deduplicated_at = Loaded(c).last_deduplicated_at
                 /\ file' = Cached(c)']_vars

\* A store has put a record next to a similar one in a collection that was
\* deduplicated before
C19_Witness ==
    /\ last.op = "store" /\ last.out = "ok"
    /\ Cached(last.conv).last_deduplicated_at # NoTime
    /\ Len(CachedMemories(last.conv)) = 2
    /\ AboveThreshold(Normalized(CachedMemories(last.conv)[1].embedding),
                      Normalized(CachedMemories(last.conv)[2].embedding))

----------------------------------------------------------------------------
(* C20 (SpecDedup).  Every record a dedup pass removes has, among the      *)
(* records left, one whose cosine similarity to it is above 0.75; so a     *)
(* pass never removes all records.                                         *)

Left(m, memories) == \E p \in DOMAIN memories : memories[p] = m

C20_RemovedHasSimilarSurvivor ==
    [][\A c \in Convs :
          (DedupPassDone /\ last'.conv = c) =>
              /\ CachedMemories(c)' # <<>>
              /\ \A q \in DOMAIN Loaded(c).memories :
                    ~Left(Loaded(c).memories[q], CachedMemories(c)') =>
                        \E p \in DOMAIN CachedMemories(c)' :
                            AboveThreshold(
                                Normalized(CachedMemories(c)'[p].embedding),
                                Normalized(Loaded(c).memories[q].embedding))]_vars

\* The same for collections no two records of which have the same
\* embedding (a chain b ~ e, b ~ a, e not ~ a is among them)
C20_RemovedHasSimilarSurvivorDistinct ==
    [][\A c \in Convs :
          (/\ DedupPassDone /\ last'.conv = c
           /\ \A p, q \in DOMAIN Loaded(c).memories :
                 p # q => Loaded(c).memories[p].embedding
                             # Loaded(c).memories[q].embedding) =>
              \A q \in DOMAIN Loaded(c).memories :
                  ~Left(Loaded(c).memories[q], CachedMemories(c)') =>
                      \E p \in DOMAIN CachedMemories(c)' :
                          AboveThreshold(
                              Normalized(CachedMemories(c)'[p].embedding),
                              Normalized(Loaded(c).memories[q].embedding))]_vars

\* For such collections the pass at least leaves a record
C20_PassLeavesARecord ==
    [][\A c \in Convs :
          (/\ DedupPassDone /\ last'.conv = c
           /\ \A p, q \in DOMAIN Loaded(c).memories :
                 p # q => Loaded(c).memories[p].embedding
                             # Loaded(c).memories[q].embedding) =>
              CachedMemories(c)' # <<>>]_vars

----------------------------------------------------------------------------
(* C21 (SpecDedup).  After a dedup pass over a collection of any size no   *)
(* two records left have cosine similarity above 0.75 to each other.       *)

NoTwoSimilar(memories) ==
    \A p, q \in DOMAIN memories :
        p # q => ~AboveThreshold(Normalized(memories[p].embedding),
                                 Normalized(memories[q].embedding))

C21_NoSimilarSurvivors ==
    [][\A c \in Convs :
          (DedupPassDone /\ last'.conv = c) => NoTwoSimilar(CachedMemories(c)')]_vars

\* The same for collections of at most 10 records, where every neighbour
\* list holds every record
C21_NoSimilarSurvivorsUpToTen ==
    [][\A c \in Convs :
          (DedupPassDone /\ last'.conv = c
                /\ Len(Loaded(c).memories) <= NEIGHBOURS) =>
              NoTwoSimilar(CachedMemories(c)')]_vars

----------------------------------------------------------------------------
(* C22 (SpecStores).  With stores only, made one after the other for one   *)
(* user under any conversation id and with downloads that may fail, every  *)
(* record persisted before a successful store is persisted after it: a     *)
(* store never drops or overwrites records already in the file.            *)

StoreDone == IsCall /\ last'.op = "store" /\ last'.out = "ok"

C22_StoreKeepsPersisted ==
    [][StoreDone =>
          \A p \in DOMAIN PersistedMemories :
              \E q \in DOMAIN PersistedMemories' :
                  PersistedMemories'[q] = PersistedMemories[p]]_vars

=============================================================================
